---- MODULE Spec2Model ----
(***************************************************************************)
(* RenewableEnergyDataGenerator (src/data_generation/                      *)
(* generate_synthetic_data.py): generate_all_data as a state machine.      *)
(*                                                                         *)
(* Fixed point.  Reals are integers in these units:                        *)
(*   energy (kWh), price ($/MWh), temperature (C), wind speed (m/s) and    *)
(*   downtime (h)            : tenths                                      *)
(*   factors, probabilities, uniform draws, sines, revenue ($) : thousandths*)
(* A missing cell (numpy nan) is the value NaN; every arithmetic operator  *)
(* that can meet one propagates it the way IEEE arithmetic does.           *)
(*                                                                         *)
(* Random numbers.  numpy's generator is process-global: np.random.seed(s) *)
(* resets it and each draw advances it, so a stream is a function of the   *)
(* seed and the position.  Which function is left open: `gen` selects one  *)
(* member of a family of deterministic generators.                         *)
(***************************************************************************)
EXTENDS Integers, Sequences, FiniteSets, TLC

VARIABLES
    start_date,          \* self.start_date (day number, 1 = 2022-01-01)
    end_date,            \* self.end_date
    date_range,          \* self.date_range
    sites,               \* self.sites: sequence of <<site_id, site_info>> in dict order
    hash_salt,           \* the interpreter's per-process string-hash salt
    gen,                 \* which deterministic generator numpy's is
    rng,                 \* state of the process-global generator
    pc,                  \* position in generate_all_data
    site_idx,            \* position of the loop over self.sites.keys()
    weather_probs,       \* the normalised weather_probs of _generate_weather_data
    weather_conditions,  \* locals of generate_all_data / generate_site_data
    temperature,
    wind_speed,
    spot_prices,
    energy_production,
    downtime_hours,
    all_data,
    all_columns,         \* the columns of each frame of all_data
    combined_data,
    columns,             \* combined_data.columns
    result,              \* the table returned to the caller
    stats,               \* the dict generate_summary_stats returned
    error,               \* the exception that left generate_all_data
    log,                 \* the calls made so far, in order
    run,                 \* number of the current call of generate_all_data
    prev_result,         \* the table returned by the previous call
    upload_env,          \* upload_synthetic_data: its arguments' files and what
                         \* the storage service does with each request
    upload_pc,           \* position in upload_synthetic_data
    results,             \* its results dict
    upload_calls,        \* the uploader methods it has called, in order
    upload_raised,       \* the exception that left upload_synthetic_data
    site_data            \* what generate_site_data called on its own returned last

vars == <<start_date, end_date, date_range, sites, hash_salt, gen, rng, pc,
          site_idx, weather_probs, weather_conditions, temperature, wind_speed,
          spot_prices, energy_production, downtime_hours, all_data, all_columns, combined_data,
          columns, result, stats, error, log, run, prev_result,
          upload_env, upload_pc, results, upload_calls, upload_raised, site_data>>

(***************************************************************************)
(* Bounds of the model                                                     *)
(***************************************************************************)
MaxDays == 2
MaxSites == 2
NumGens == 104
NumSalts == 2
MaxWindSpeed == 300
MaxAloneCalls == 2

NumCallGens == 4

StartDays == {7, 171}

(***************************************************************************)
(* Values                                                                  *)
(***************************************************************************)
NaN == -1000000000

IsNaN(x) == x = NaN

NoError == "none"

Max(a, b) == IF a >= b THEN a ELSE b

Min(a, b) == IF a <= b THEN a ELSE b

Abs(a) == IF a >= 0 THEN a ELSE 0 - a

\* a * b for a value a and a factor b in thousandths
MulK(a, b) == (a * b) \div 1000

\* float multiplication of a possibly missing value by a factor in thousandths
NanMulK(a, b) == IF IsNaN(a) \/ IsNaN(b) THEN NaN ELSE MulK(a, b)

(***************************************************************************)
(* Calendar: pandas' dayofyear and dayofweek of a day number               *)
(***************************************************************************)
\* 2022 and 2023 have 365 days, 2024 has 366
dayofyear(d) == IF d <= 365 THEN d ELSE IF d <= 730 THEN d - 365 ELSE d - 730

\* Monday = 0; 2022-01-01 is a Saturday
dayofweek(d) == (d + 4) % 7

\* pd.date_range(start, end, freq='D'): empty when start is after end
DateRange(s, e) == [i \in 1..Max(e - s + 1, 0) |-> s + i - 1]

(***************************************************************************)
(* np.sin(2 * pi * num / 365.25) in thousandths (Bhaskara's approximation  *)
(* on whole degrees)                                                       *)
(***************************************************************************)
SinDeg(x) == (4000 * x * (180 - x)) \div (40500 - x * (180 - x))

SinYear(num) ==
    LET deg == ((num * 1440) \div 1461) % 360
    IN  IF deg <= 180 THEN SinDeg(deg) ELSE 0 - SinDeg(deg - 180)

(***************************************************************************)
(* The process-global generator                                            *)
(***************************************************************************)
\* values a uniform draw on [0, 1) takes, on both sides of every threshold
\* the program compares a draw with (0.01, 0.02, 0.03, 0.05)
Grid == <<5, 15, 25, 40, 200, 450, 700, 900, 965, 990, 999>>

RECURSIVE Lcg(_, _)
\* k steps of the linear congruential generator x -> (75 x + 74) mod 65537
Lcg(x, k) == IF k = 0 THEN x ELSE Lcg((75 * x + 74) % 65537, k - 1)

\* the k-th draw (k = 0, 1, ...) of generator g after np.random.seed(seed):
\* generator g scrambles the seed into its initial state in its own way
Random(g, seed, k) == Grid[(Lcg((seed + 7919 * g) % 65537, k + 1) % Len(Grid)) + 1]

\* np.random.seed(s)
Seeded(s) == [seed |-> s, pos |-> 0]

\* mutant: the stage draws on from where the generator stands
seed_skipped(r, s) == r

\* np.random.seed(s) on the process-global generator in state r
np_random_seed(r, s) == Seeded(s)

\* the generator after n more draws
Advance(r, n) == [seed |-> r.seed, pos |-> r.pos + n]

\* np.random.uniform(lo, hi): lo + (hi - lo) * u
Uniform(lo, hi, u) == lo + MulK(hi - lo, u)

\* np.random.normal(0, 1) in thousandths, from the underlying uniform draw
StdNormal(u) ==
    IF u < 10 THEN 0 - 8000
    ELSE IF u < 100 THEN 0 - 2000
    ELSE IF u < 500 THEN 0 - 500
    ELSE IF u < 900 THEN 500
    ELSE 3000

\* np.random.gamma(2, 2) in tenths: never negative
Gamma22(u) ==
    IF u < 10 THEN 3
    ELSE IF u < 100 THEN 10
    ELSE IF u < 500 THEN 25
    ELSE IF u < 900 THEN 60
    ELSE 200

\* np.random.exponential(0.5) in tenths: never negative
Exponential05(u) ==
    IF u < 10 THEN 0
    ELSE IF u < 100 THEN 1
    ELSE IF u < 500 THEN 2
    ELSE IF u < 900 THEN 6
    ELSE IF u < 995 THEN 23
    ELSE 35

\* hash(site_id): CPython salts str hashes with a per-process random key
\* (PYTHONHASHSEED); the modelled values are the non-negative ones below 2^31
SiteCode(site_id) ==
    CASE site_id = "SOLAR001" -> 11
      [] site_id = "SOLAR002" -> 12
      [] site_id = "WIND001" -> 21
      [] site_id = "WIND002" -> 22
      [] site_id = "BATT001" -> 31
      [] OTHER -> 41

hash(site_id, salt) == SiteCode(site_id) * 1009 + salt * 7919

\* h % 2**32, for 0 <= h < 2^31
Mod2Pow32(h) == h

(***************************************************************************)
(* Site catalog                                                            *)
(***************************************************************************)
\* self.sites of __init__ (one of its three solar sites kept), followed by
\* one entry of a type the production dispatch does not know
ReferenceCatalog ==
    << <<"SOLAR001", [name |-> "Desert Sun Solar Farm", type |-> "solar", capacity_mw |-> 50]>>,
       <<"WIND001", [name |-> "Prairie Wind Farm", type |-> "wind", capacity_mw |-> 100]>>,
       <<"WIND002", [name |-> "Offshore Wind Array", type |-> "wind", capacity_mw |-> 150]>>,
       <<"BATT001", [name |-> "Grid Scale Battery", type |-> "battery", capacity_mwh |-> 200]>>,
       <<"HYDRO001", [name |-> "River Hydro Plant", type |-> "hydro", capacity_mw |-> 20]>> >>

\* the catalogs a run is given: the slices of the reference catalog of at
\* most MaxSites entries (a dict: unique keys, iterated in insertion order)
Catalogs ==
    UNION { { [i \in 1..n |-> ReferenceCatalog[a + i - 1]] :
                  n \in 0..Min(MaxSites, Len(ReferenceCatalog) - a + 1) } :
            a \in 1..Len(ReferenceCatalog) }

\* Python's order on the site ids (str comparison)
SiteRank(site_id) ==
    CASE site_id = "BATT001" -> 1
      [] site_id = "HYDRO001" -> 2
      [] site_id = "SOLAR001" -> 3
      [] site_id = "SOLAR002" -> 4
      [] site_id = "WIND001" -> 5
      [] site_id = "WIND002" -> 6

weather_labels == <<"Sunny", "Partly Cloudy", "Cloudy", "Rainy", "Stormy", "Foggy">>

(***************************************************************************)
(* _generate_weather_data                                                  *)
(***************************************************************************)
Temperature(d, u) ==
    150 + ((12 * SinYear(dayofyear(d) - 80)) \div 100) + ((5 * StdNormal(u)) \div 100)

\* mutant: a base wind of 4 m/s
WindSpeedLowBase(d, u) ==
    Max(40 + ((3 * SinYear(dayofyear(d) - 120)) \div 100) + Gamma22(u), 0)

\* one day of wind speed, in tenths of a m/s, from the day's gamma draw
WindSpeed(d, u) ==
    Max(80 + ((3 * SinYear(dayofyear(d) - 120)) \div 100) + Gamma22(u), 0)

\* mutant: a cold day takes the whole Sunny weight away
WeatherWeightsColdNoSun(t, w) ==
    << 400 + (IF t > 200 THEN 200 ELSE 0) - (IF t < 100 THEN 400 ELSE 0),
       250,
       200,
       100 + (IF t < 100 THEN 100 ELSE 0),
       30 + (IF w > 150 THEN 20 ELSE 0),
       20 + (IF t < 50 THEN 30 ELSE 0) >>

\* the six unnormalised weights, in thousandths
WeatherWeights(t, w) ==
    << 400 + (IF t > 200 THEN 200 ELSE 0),
       250,
       200,
       100 + (IF t < 100 THEN 100 ELSE 0),
       30 + (IF w > 150 THEN 20 ELSE 0),
       20 + (IF t < 50 THEN 30 ELSE 0) >>

RECURSIVE SumSeq(_)
SumSeq(q) == IF q = <<>> THEN 0 ELSE Head(q) + SumSeq(Tail(q))

\* weather_probs / weather_probs.sum(axis=1): each probability is the
\* fraction num[j] / den
Normalize(weights) == [num |-> weights, den |-> SumSeq(weights)]

\* np.random.choice(labels, p=probs): the first label whose cumulative
\* probability exceeds the draw
Choice(labels, probs, u) ==
    LET cum(j) == SumSeq(SubSeq(probs.num, 1, j))
        k == CHOOSE j \in 1..Len(labels) :
                 /\ u * probs.den < 1000 * cum(j)
                 /\ \A i \in 1..(j - 1) : ~(u * probs.den < 1000 * cum(i))
    IN  labels[k]

\* the three arrays returned (and the normalised weather_probs the labels
\* were sampled with), for generator state r = Seeded(123)
generate_weather_data(dates, g, r) ==
    LET n == Len(dates)
        temp == [i \in 1..n |-> Temperature(dates[i], Random(g, r.seed, r.pos + i - 1))]
        wind == [i \in 1..n |-> WindSpeed(dates[i], Random(g, r.seed, r.pos + n + i - 1))]
        probs == [i \in 1..n |-> Normalize(WeatherWeights(temp[i], wind[i]))]
        cond == [i \in 1..n |->
                    Choice(weather_labels, probs[i],
                           Random(g, r.seed, r.pos + 2 * n + i - 1))]
    IN  [weather_conditions |-> cond, temperature |-> temp, wind_speed |-> wind,
         weather_probs |-> probs]

(***************************************************************************)
(* _generate_spot_market_price                                             *)
(***************************************************************************)
\* mutant: the price is not clamped
PriceNotFloored(p) == p

\* np.maximum(prices, 5)
PriceFloor(p) == Max(p, 50)

SpotPrice(d, start, uVol, uSpike, uValue) ==
    LET seasonal == ((10 * SinYear(dayofyear(d))) \div 100)
                    + ((8 * SinYear(2 * dayofyear(d))) \div 100)
        weekly == IF dayofweek(d) < 5 THEN 50 ELSE 0
        trend == ((d - start) * 2000) \div 36525
        volatility == (8 * StdNormal(uVol)) \div 100
        spike_values == IF uSpike < 50 THEN Uniform(200, 800, uValue) ELSE 0
    IN  PriceFloor(450 + seasonal + weekly + trend + volatility + spike_values)

generate_spot_market_price(dates, start, g, r) ==
    LET n == Len(dates)
    IN  [i \in 1..n |->
            SpotPrice(dates[i], start,
                      Random(g, r.seed, r.pos + i - 1),
                      Random(g, r.seed, r.pos + n + i - 1),
                      Random(g, r.seed, r.pos + 2 * n + i - 1))]

(***************************************************************************)
(* Production models                                                       *)
(***************************************************************************)
SolarWeatherFactor(w) ==
    CASE w = "Sunny" -> 950
      [] w = "Partly Cloudy" -> 750
      [] w = "Cloudy" -> 450
      [] w = "Rainy" -> 200
      [] w = "Stormy" -> 100
      [] w = "Foggy" -> 300
      [] OTHER -> 500

WindWeatherFactor(w) ==
    CASE w = "Sunny" -> 800
      [] w = "Partly Cloudy" -> 900
      [] w = "Cloudy" -> 1000
      [] w = "Rainy" -> 1100
      [] w = "Stormy" -> 1300
      [] w = "Foggy" -> 700
      [] OTHER -> 1000

BatteryWeatherFactor(w) ==
    CASE w = "Sunny" -> 300
      [] w = "Partly Cloudy" -> 500
      [] w = "Cloudy" -> 800
      [] w = "Rainy" -> 1000
      [] w = "Stormy" -> 1200
      [] w = "Foggy" -> 900
      [] OTHER -> 600

\* np.maximum(production, 0)
FloorAtZero(production) == Max(production, 0)

\* one day of _generate_solar_production; capacity in MW, result in tenths
SolarProduction(d, w, t, capacity, u) ==
    LET seasonal_factor == 700 + MulK(300, SinYear(dayofyear(d) - 80))
        weather_factor == SolarWeatherFactor(w)
        temp_factor == Max(500, 1000 - Max(0, t - 250))
        daily_variation == Uniform(800, 1200, u)
        base_hours == 8000 + 4 * seasonal_factor
    IN  FloorAtZero(MulK(MulK(MulK(MulK(MulK(capacity * 10, base_hours),
                 seasonal_factor), weather_factor), temp_factor), daily_variation))

\* mutant: the curve has no cut-out
CapacityFactorNoCutOut(speed) ==
    IF speed < 35 THEN 0
    ELSE IF speed < 120 THEN (speed * speed * speed * 1000) \div (120 * 120 * 120)
    ELSE 1000

\* the wind power curve, in thousandths, of a speed in tenths
CapacityFactor(speed) ==
    IF speed < 35 THEN 0
    ELSE IF speed < 120 THEN (speed * speed * speed * 1000) \div (120 * 120 * 120)
    ELSE IF speed < 250 THEN 1000
    ELSE 0

\* one day of _generate_wind_production
WindProduction(w, speed, capacity, u) ==
    LET daily_variation == Uniform(850, 1150, u)
    IN  FloorAtZero(MulK(MulK(MulK(capacity * 24 * 10, CapacityFactor(speed)),
                 WindWeatherFactor(w)), daily_variation))

\* one day of _generate_battery_production
BatteryProduction(d, w, capacity, u) ==
    LET seasonal_factor == 400 + MulK(300, Abs(SinYear(dayofyear(d))))
        weekly_factor == 800 + (IF dayofweek(d) < 5 THEN 400 ELSE 0)
        operational_factor == Uniform(300, 1000, u)
    IN  FloorAtZero(MulK(MulK(MulK(MulK(capacity * 4 * 10, seasonal_factor),
                 weekly_factor), BatteryWeatherFactor(w)), operational_factor))

\* site_info.get('capacity_mw', site_info.get('capacity_mwh', 50))
Capacity(site_info) ==
    IF "capacity_mw" \in DOMAIN site_info THEN site_info.capacity_mw
    ELSE IF "capacity_mwh" \in DOMAIN site_info THEN site_info.capacity_mwh
    ELSE 50

\* mutant: the else branch falls back to the battery model
DispatchDefault(site_type) ==
    IF site_type \in {"solar", "wind", "battery"} THEN site_type ELSE "battery"

\* the if / elif / else chain of _generate_energy_production: the model a
\* site type is dispatched to, "raise" for the else branch
Dispatch(site_type) ==
    IF site_type \in {"solar", "wind", "battery"} THEN site_type ELSE "raise"

\* the seed _generate_energy_production gives the generator
ProductionSeed(site_id, salt) == Mod2Pow32(hash(site_id, salt))

\* _generate_energy_production for a known type, generator state r
generate_energy_production(site_info, dates, weather, temp, wind, g, r) ==
    LET capacity == Capacity(site_info)
        u(i) == Random(g, r.seed, r.pos + i - 1)
    IN  [i \in 1..Len(dates) |->
            CASE Dispatch(site_info.type) = "solar" ->
                     SolarProduction(dates[i], weather[i], temp[i], capacity, u(i))
              [] Dispatch(site_info.type) = "wind" ->
                     WindProduction(weather[i], wind[i], capacity, u(i))
              [] Dispatch(site_info.type) = "battery" ->
                     BatteryProduction(dates[i], weather[i], capacity, u(i))]

(***************************************************************************)
(* _generate_downtime                                                      *)
(***************************************************************************)
HasMaintenanceProb(site_type) == site_type \in {"solar", "wind", "battery"}

maintenance_prob(site_type) ==
    CASE site_type = "solar" -> 20
      [] site_type = "wind" -> 30
      [] site_type = "battery" -> 10

\* mutant: the weather outage is subtracted from the maintenance hours
DowntimeSubtracts(site_type, uDay, uHours, uOutage) ==
    LET maintenance_hours ==
            IF uDay < maintenance_prob(site_type) THEN Uniform(20, 120, uHours) ELSE 0
        drawn == Exponential05(uOutage)
        weather_outage_hours == IF drawn > 30 THEN 0 ELSE drawn
        total_downtime == maintenance_hours - weather_outage_hours
    IN  Min(total_downtime, 240)

\* one day of downtime, in tenths of an hour, from the day's three draws
Downtime(site_type, uDay, uHours, uOutage) ==
    LET maintenance_hours ==
            IF uDay < maintenance_prob(site_type) THEN Uniform(20, 120, uHours) ELSE 0
        drawn == Exponential05(uOutage)
        weather_outage_hours == IF drawn > 30 THEN 0 ELSE drawn
        total_downtime == maintenance_hours + weather_outage_hours
    IN  Min(total_downtime, 240)

\* mutant: the downtime stage seeds with the site, as the production stage does
DowntimeSeedPerSite(site_id, salt) == ProductionSeed(site_id, salt)

\* the seed _generate_downtime gives the generator (line 251): the same for
\* every site
DowntimeSeed(site_id, salt) == 456

generate_downtime(dates, site_type, g, r) ==
    LET n == Len(dates)
    IN  [i \in 1..n |->
            Downtime(site_type,
                     Random(g, r.seed, r.pos + i - 1),
                     Random(g, r.seed, r.pos + n + i - 1),
                     Random(g, r.seed, r.pos + 2 * n + i - 1))]

(***************************************************************************)
(* generate_site_data: availability, revenue and the site's block          *)
(***************************************************************************)
\* mutant: the operands of the subtraction are swapped
AvailabilitySwapped(downtime) == ((downtime * 1000) \div 240) - 1000

\* 1 - downtime_hours / 24, in thousandths
Availability(downtime) == 1000 - ((downtime * 1000) \div 240)

\* mutant: a missing energy counts as 0 (fillna before the product)
RevenueFillZero(energy, price) ==
    IF IsNaN(price) THEN NaN
    ELSE IF IsNaN(energy) THEN 0
    ELSE (energy * price) \div 100

\* energy * price / 1000 in thousandths of a dollar; nan if either is nan
RevenueOf(energy, price) ==
    IF IsNaN(energy) \/ IsNaN(price) THEN NaN ELSE (energy * price) \div 100

\* mutant: the revenue is added to the frame after it is built
site_columns_revenue_last ==
    <<"Date", "SiteID", "SiteName", "SiteType", "EnergyProduced_kWh", "SpotMarketPrice",
      "WeatherCondition", "DowntimeHours", "Temperature_C", "WindSpeed_mps", "Revenue">>

\* the keys of the dict the site's frame is built from, in order: its columns
site_columns ==
    <<"Date", "SiteID", "SiteName", "SiteType", "EnergyProduced_kWh", "SpotMarketPrice",
      "Revenue", "WeatherCondition", "DowntimeHours", "Temperature_C", "WindSpeed_mps">>

\* mutant: the production is not adjusted for downtime
SiteBlockFullOutput(site_id, site_info, dates, energy, prices, weather, downtime, temp, wind) ==
    [i \in 1..Len(dates) |->
        [Date |-> dates[i],
         SiteID |-> site_id,
         SiteName |-> site_info.name,
         SiteType |-> site_info.type,
         EnergyProduced_kWh |-> energy[i],
         SpotMarketPrice |-> prices[i],
         Revenue |-> RevenueOf(energy[i], prices[i]),
         WeatherCondition |-> weather[i],
         DowntimeHours |-> downtime[i],
         Temperature_C |-> temp[i],
         WindSpeed_mps |-> wind[i]]]

SiteBlock(site_id, site_info, dates, energy, prices, weather, downtime, temp, wind) ==
    [i \in 1..Len(dates) |->
        [Date |-> dates[i],
         SiteID |-> site_id,
         SiteName |-> site_info.name,
         SiteType |-> site_info.type,
         EnergyProduced_kWh |-> MulK(energy[i], Availability(downtime[i])),
         SpotMarketPrice |-> prices[i],
         Revenue |-> RevenueOf(MulK(energy[i], Availability(downtime[i])), prices[i]),
         WeatherCondition |-> weather[i],
         DowntimeHours |-> downtime[i],
         Temperature_C |-> temp[i],
         WindSpeed_mps |-> wind[i]]]

(***************************************************************************)
(* generate_all_data: concatenation, degradation, recompute, sort          *)
(***************************************************************************)
\* mutant: each block replaces the list instead of being appended to it
ConcatKeepsLast(blocks) == IF blocks = <<>> THEN <<>> ELSE blocks[Len(blocks)]

RECURSIVE Concat(_)
\* pd.concat(all_data, ignore_index=True)
Concat(blocks) == IF blocks = <<>> THEN <<>> ELSE Head(blocks) \o Concat(Tail(blocks))

Range(q) == {q[i] : i \in DOMAIN q}

RECURSIVE ConcatColumns(_)
\* the columns of pd.concat(frames): every column of every frame, in the order
\* of first appearance
ConcatColumns(frames) ==
    IF frames = <<>> THEN <<>>
    ELSE LET rest == ConcatColumns(SubSeq(frames, 1, Len(frames) - 1))
             last == frames[Len(frames)]
         IN  rest \o SelectSeq(last, LAMBDA c : c \notin Range(rest))

\* the columns after df[name] = values: an existing column keeps its place, a
\* new one is appended
SetColumn(cols, name) == IF name \in Range(cols) THEN cols ELSE Append(cols, name)

\* mutant: DowntimeHours is a nullable column too, and shares the energy's mask
introduce_missing_values_downtime(df, g, r) ==
    LET n == Len(df)
        mask(c, i) == Random(g, r.seed, r.pos + c * n + i - 1) < 20
    IN  [i \in 1..n |->
            [df[i] EXCEPT
                !.EnergyProduced_kWh = IF mask(0, i) THEN NaN ELSE @,
                !.DowntimeHours = IF mask(0, i) THEN NaN ELSE @,
                !.Temperature_C = IF mask(1, i) THEN NaN ELSE @,
                !.WindSpeed_mps = IF mask(2, i) THEN NaN ELSE @]]

\* mutant: WeatherCondition is a nullable column too, and shares the
\* temperature's mask
introduce_missing_values_weather(df, g, r) ==
    LET n == Len(df)
        mask(c, i) == Random(g, r.seed, r.pos + c * n + i - 1) < 20
    IN  [i \in 1..n |->
            [df[i] EXCEPT
                !.EnergyProduced_kWh = IF mask(0, i) THEN NaN ELSE @,
                !.Temperature_C = IF mask(1, i) THEN NaN ELSE @,
                !.WeatherCondition = IF mask(1, i) THEN "nan" ELSE @,
                !.WindSpeed_mps = IF mask(2, i) THEN NaN ELSE @]]

\* _introduce_missing_values: one mask of len(df) draws per nullable column,
\* in the order energy, temperature, wind speed; generator state r = Seeded(789)
introduce_missing_values(df, g, r) ==
    LET n == Len(df)
        mask(c, i) == Random(g, r.seed, r.pos + c * n + i - 1) < 20
    IN  [i \in 1..n |->
            [df[i] EXCEPT
                !.EnergyProduced_kWh = IF mask(0, i) THEN NaN ELSE @,
                !.Temperature_C = IF mask(1, i) THEN NaN ELSE @,
                !.WindSpeed_mps = IF mask(2, i) THEN NaN ELSE @]]

outlier_multipliers == <<100, 200, 2000, 3000>>

\* np.random.choice(values): values[floor(u * len(values))]
ChoiceUniform(values, u) == values[((u * Len(values)) \div 1000) + 1]

\* mutant: the multiplier is applied to the price column
introduce_outliers_price(df, g, r) ==
    LET n == Len(df)
        energy_outliers(i) == Random(g, r.seed, r.pos + i - 1) < 10
        nth(i) == Cardinality({j \in 1..i : energy_outliers(j)})
        outlier_multiplier(i) ==
            outlier_multipliers[((Random(g, r.seed, r.pos + n + nth(i) - 1) * 4) \div 1000) + 1]
    IN  [i \in 1..n |->
            IF energy_outliers(i)
            THEN [df[i] EXCEPT !.SpotMarketPrice = NanMulK(@, outlier_multiplier(i))]
            ELSE df[i]]

\* mutant: the multiplier is applied to the temperature column as well
introduce_outliers_temperature(df, g, r) ==
    LET n == Len(df)
        energy_outliers(i) == Random(g, r.seed, r.pos + i - 1) < 10
        nth(i) == Cardinality({j \in 1..i : energy_outliers(j)})
        outlier_multiplier(i) ==
            outlier_multipliers[((Random(g, r.seed, r.pos + n + nth(i) - 1) * 4) \div 1000) + 1]
    IN  [i \in 1..n |->
            IF energy_outliers(i)
            THEN [df[i] EXCEPT !.EnergyProduced_kWh = NanMulK(@, outlier_multiplier(i)),
                               !.Temperature_C = NanMulK(@, outlier_multiplier(i))]
            ELSE df[i]]

\* _introduce_outliers: len(df) draws select rows, then one multiplier is
\* drawn per selected row; generator state r = Seeded(101112)
introduce_outliers(df, g, r) ==
    LET n == Len(df)
        energy_outliers(i) == Random(g, r.seed, r.pos + i - 1) < 10
        nth(i) == Cardinality({j \in 1..i : energy_outliers(j)})
        outlier_multiplier(i) ==
            ChoiceUniform(outlier_multipliers, Random(g, r.seed, r.pos + n + nth(i) - 1))
    IN  [i \in 1..n |->
            IF energy_outliers(i)
            THEN [df[i] EXCEPT !.EnergyProduced_kWh = NanMulK(@, outlier_multiplier(i))]
            ELSE df[i]]

\* the number of draws _introduce_outliers makes
OutlierDraws(df, g, r) ==
    Len(df) + Cardinality({j \in 1..Len(df) : Random(g, r.seed, r.pos + j - 1) < 10})

\* mutant: the revenue of the site blocks is kept
recompute_skipped(df) == df

\* combined_data['Revenue'] = combined_data['EnergyProduced_kWh']
\*                              * combined_data['SpotMarketPrice'] / 1000
recompute_revenue(df) ==
    [i \in 1..Len(df) |->
        [df[i] EXCEPT !.Revenue = RevenueOf(df[i].EnergyProduced_kWh, df[i].SpotMarketPrice)]]

\* the order of sort_values(['Date', 'SiteID'])
RowBefore(a, b) ==
    \/ a.Date < b.Date
    \/ a.Date = b.Date /\ SiteRank(a.SiteID) < SiteRank(b.SiteID)

RECURSIVE InsertRow(_, _)
InsertRow(row, sorted) ==
    IF sorted = <<>> THEN <<row>>
    ELSE IF RowBefore(row, Head(sorted)) THEN <<row>> \o sorted
    ELSE <<Head(sorted)>> \o InsertRow(row, Tail(sorted))

\* mutant: the table is returned in the order of the concatenation
sort_skipped(df) == df

RECURSIVE sort_values(_)
\* df.sort_values(['Date', 'SiteID']).reset_index(drop=True)
sort_values(df) ==
    IF df = <<>> THEN <<>>
    ELSE InsertRow(df[Len(df)], sort_values(SubSeq(df, 1, Len(df) - 1)))

(***************************************************************************)
(* generate_summary_stats                                                  *)
(***************************************************************************)
\* the days of the months of 2022 and 2023
MonthDays == <<31, 28, 31, 30, 31, 30, 31, 31, 30, 31, 30, 31>>

RECURSIVE MonthOf(_, _)
\* the month and day of the n-th day of the year, counting from month m
MonthOf(n, m) ==
    IF n <= MonthDays[m] THEN [month |-> m, day |-> n]
    ELSE MonthOf(n - MonthDays[m], m + 1)

\* Timestamp.strftime('%Y-%m-%d') of a day of 2022 or 2023: <<year, month, day>>
strftime(d) ==
    LET md == MonthOf(dayofyear(d), 1)
    IN  <<(IF d <= 365 THEN 2022 ELSE 2023), md.month, md.day>>

\* the cells of a column, in row order
Column(df, c) == [i \in DOMAIN df |-> df[i][c]]

\* the columns of dtype object
object_columns == {"SiteID", "SiteName", "SiteType", "WeatherCondition"}

\* isnull of a cell of column c: nan, or the missing value of an object column
isnull(c, x) == IF c \in object_columns THEN x = "nan" ELSE IsNaN(x)

\* the non-missing cells of a numeric column (sum, mean and max skip nan)
Present(df, c) == SelectSeq(Column(df, c), LAMBDA x : ~IsNaN(x))

\* Series.sum(): 0 for a column without a present cell
ColumnSum(df, c) == SumSeq(Present(df, c))

\* Series.mean(): nan for a column without a present cell
ColumnMean(df, c) ==
    IF Present(df, c) = <<>> THEN NaN ELSE SumSeq(Present(df, c)) \div Len(Present(df, c))

\* Series.max(): nan for a column without a present cell
ColumnMax(df, c) ==
    IF Present(df, c) = <<>> THEN NaN
    ELSE CHOOSE x \in Range(Present(df, c)) : \A y \in Range(Present(df, c)) : y <= x

\* mutant: Series.count() in place of Series.nunique()
count(q) == Len(q)

\* Series.nunique()
nunique(q) == Cardinality(Range(q))

\* Series.value_counts().to_dict(): the rows of each value that occurs
value_counts(q) == [v \in Range(q) |-> Cardinality({i \in DOMAIN q : q[i] = v})]

\* Series.unique().tolist(): the values in the order of first appearance
unique(q) == SelectSeq([i \in DOMAIN q |-> IF \E j \in 1..(i - 1) : q[j] = q[i]
                                             THEN "" ELSE q[i]],
                       LAMBDA v : v /= "")

\* df.isnull().sum().to_dict()
missing_values(df, cols) ==
    [c \in Range(cols) |-> Cardinality({i \in DOMAIN df : isnull(c, df[i][c])})]

\* (df.isnull().sum() / len(df) * 100).to_dict(), in thousandths of a percent
missing_percentage(df, cols) ==
    [c \in Range(cols) |-> (missing_values(df, cols)[c] * 100000) \div Len(df)]

\* the dict generate_summary_stats returns for a table with a row; the
\* table itself is only read
generate_summary_stats(df, cols) ==
    [total_records |-> Len(df),
     date_range |->
        [start |-> strftime(CHOOSE d \in Range(Column(df, "Date")) :
                                \A e \in Range(Column(df, "Date")) : d <= e),
         end |-> strftime(CHOOSE d \in Range(Column(df, "Date")) :
                              \A e \in Range(Column(df, "Date")) : e <= d)],
     sites |->
        [total_sites |-> nunique(Column(df, "SiteID")),
         site_types |-> value_counts(Column(df, "SiteType")),
         sites_list |-> unique(Column(df, "SiteID"))],
     energy_production |->
        [total_kwh |-> ColumnSum(df, "EnergyProduced_kWh"),
         avg_daily_kwh |-> ColumnMean(df, "EnergyProduced_kWh"),
         max_daily_kwh |-> ColumnMax(df, "EnergyProduced_kWh")],
     revenue |->
        [total_revenue |-> ColumnSum(df, "Revenue"),
         avg_daily_revenue |-> ColumnMean(df, "Revenue"),
         max_daily_revenue |-> ColumnMax(df, "Revenue")],
     data_quality |->
        [missing_values |-> missing_values(df, cols),
         missing_percentage |-> missing_percentage(df, cols)]]

\* no summary computed
NoStats == [total_records |-> 0 - 1]

(***************************************************************************)
(* State machine                                                           *)
(***************************************************************************)
Unseeded == [seed |-> 0 - 1, pos |-> 0]

Call(op, site_id) == [op |-> op, site |-> site_id]

\* mutant: the outliers are injected before the missing values
StageAfterOutliersFirst(stage, more_sites) ==
    CASE stage = "weather" -> "price"
      [] stage = "price" -> IF more_sites THEN "production" ELSE "concat"
      [] stage = "production" -> "downtime"
      [] stage = "downtime" -> "assemble"
      [] stage = "assemble" -> IF more_sites THEN "production" ELSE "concat"
      [] stage = "concat" -> "outliers"
      [] stage = "outliers" -> "missing"
      [] stage = "missing" -> "recompute"
      [] stage = "recompute" -> "sort"
      [] stage = "sort" -> "done"

\* the statement generate_all_data (with generate_site_data inlined) goes to
\* after a stage that did not raise; more_sites: the loop over
\* self.sites.keys() has a site left
StageAfter(stage, more_sites) ==
    CASE stage = "weather" -> "price"
      [] stage = "price" -> IF more_sites THEN "production" ELSE "concat"
      [] stage = "production" -> "downtime"
      [] stage = "downtime" -> "assemble"
      [] stage = "assemble" -> IF more_sites THEN "production" ELSE "concat"
      [] stage = "concat" -> "missing"
      [] stage = "missing" -> "outliers"
      [] stage = "outliers" -> "recompute"
      [] stage = "recompute" -> "sort"
      [] stage = "sort" -> "done"

\* generate_site_data has not been called on its own
NoSiteData == [site |-> "", rows |-> <<>>]

\* upload_synthetic_data has not been called
NoUpload ==
    /\ upload_env = [called |-> FALSE]
    /\ upload_pc = "idle"
    /\ results = [target_folder |-> <<>>, uploaded_files |-> <<>>, errors |-> <<>>]
    /\ upload_calls = <<>>
    /\ upload_raised = NoError

\* the state after RenewableEnergyDataGenerator(start_date, end_date), with
\* self.sites set to the catalog, before generate_all_data is called
Init ==
    /\ start_date \in StartDays
    /\ end_date \in (start_date - 1)..(start_date + MaxDays - 1)
    /\ date_range = DateRange(start_date, end_date)
    /\ sites \in Catalogs
    /\ hash_salt \in 0..(NumSalts - 1)
    /\ gen \in 0..(NumGens - 1)
    /\ rng = Unseeded
    /\ pc = "weather"
    /\ site_idx = 1
    /\ weather_probs = <<>>
    /\ weather_conditions = <<>>
    /\ temperature = <<>>
    /\ wind_speed = <<>>
    /\ spot_prices = <<>>
    /\ energy_production = <<>>
    /\ downtime_hours = <<>>
    /\ all_data = <<>>
    /\ all_columns = <<>>
    /\ combined_data = <<>>
    /\ columns = <<>>
    /\ result = <<>>
    /\ stats = NoStats
    /\ error = NoError
    /\ log = <<>>
    /\ run = 1
    /\ prev_result = <<>>
    /\ NoUpload
    /\ site_data = NoSiteData

upload_vars == <<upload_env, upload_pc, results, upload_calls, upload_raised>>

inputs == <<start_date, end_date, date_range, sites, hash_salt, gen, run, prev_result>>

\* line 360: the shared weather series
SharedWeather ==
    /\ pc = "weather"
    /\ LET r == np_random_seed(rng, 123)
           w == generate_weather_data(date_range, gen, r)
       IN  /\ weather_probs' = w.weather_probs
           /\ weather_conditions' = w.weather_conditions
           /\ temperature' = w.temperature
           /\ wind_speed' = w.wind_speed
           /\ rng' = Advance(r, 3 * Len(date_range))
    /\ log' = Append(log, Call("weather", ""))
    /\ pc' = StageAfter(pc, Len(sites) > 0)
    /\ UNCHANGED <<inputs, site_data, upload_vars, stats, all_columns, columns, site_idx,
                   spot_prices, energy_production, downtime_hours, all_data,
                   combined_data, result, error>>

\* line 361: the shared price series
SharedPrice ==
    /\ pc = "price"
    /\ LET r == np_random_seed(rng, 42)
       IN  /\ spot_prices' = generate_spot_market_price(date_range, start_date, gen, r)
           /\ rng' = Advance(r, 3 * Len(date_range))
    /\ log' = Append(log, Call("price", ""))
    /\ site_idx' = 1
    /\ all_data' = <<>>
    /\ all_columns' = <<>>
    /\ pc' = StageAfter(pc, Len(sites) > 0)
    /\ UNCHANGED <<inputs, site_data, upload_vars, weather_probs, stats, columns,
                   weather_conditions, temperature, wind_speed, energy_production,
                   downtime_hours, combined_data, result, error>>

\* lines 312-325 of generate_site_data: the production dispatch, which
\* raises ValueError for a type it does not know
SiteProduction ==
    /\ pc = "production"
    /\ LET site_id == sites[site_idx][1]
           site_info == sites[site_idx][2]
           r == np_random_seed(rng, ProductionSeed(site_id, hash_salt))
       IN  /\ log' = Append(log, Call("production", site_id))
           /\ IF Dispatch(site_info.type) /= "raise"
              THEN /\ energy_production' =
                         generate_energy_production(site_info, date_range,
                             weather_conditions, temperature, wind_speed, gen, r)
                   /\ rng' = Advance(r, Len(date_range))
                   /\ pc' = StageAfter(pc, site_idx < Len(sites))
                   /\ error' = error
              ELSE /\ energy_production' = energy_production
                   /\ rng' = r
                   /\ pc' = "raised"
                   /\ error' = "ValueError: Unknown site type"
    /\ UNCHANGED <<inputs, site_data, upload_vars, weather_probs, stats, all_columns,
                   columns, site_idx, weather_conditions, temperature, wind_speed,
                   spot_prices, downtime_hours, all_data, combined_data, result>>

\* line 328: the downtime model (maintenance_prob[site_type] raises
\* KeyError for a type it has no entry for)
SiteDowntime ==
    /\ pc = "downtime"
    /\ LET site_id == sites[site_idx][1]
           site_info == sites[site_idx][2]
           r == np_random_seed(rng, DowntimeSeed(site_id, hash_salt))
       IN  /\ log' = Append(log, Call("downtime", site_id))
           /\ IF HasMaintenanceProb(site_info.type)
              THEN /\ downtime_hours' = generate_downtime(date_range, site_info.type, gen, r)
                   /\ rng' = Advance(r, 3 * Len(date_range))
                   /\ pc' = StageAfter(pc, site_idx < Len(sites))
                   /\ error' = error
              ELSE /\ downtime_hours' = downtime_hours
                   /\ rng' = r
                   /\ pc' = "raised"
                   /\ error' = "KeyError"
    /\ UNCHANGED <<inputs, site_data, upload_vars, weather_probs, stats, all_columns,
                   columns, site_idx, weather_conditions, temperature, wind_speed,
                   spot_prices, energy_production, all_data, combined_data, result>>

\* lines 331-352 and 369: availability, revenue, the site's block, and the
\* loop's step to the next site
SiteAssemble ==
    /\ pc = "assemble"
    /\ LET site_id == sites[site_idx][1]
           site_info == sites[site_idx][2]
       IN  /\ all_data' = Append(all_data,
                   SiteBlock(site_id, site_info, date_range, energy_production,
                             spot_prices, weather_conditions, downtime_hours,
                             temperature, wind_speed))
           /\ all_columns' = Append(all_columns, site_columns)
           /\ log' = Append(log, Call("revenue", site_id))
    /\ site_idx' = site_idx + 1
    /\ pc' = StageAfter(pc, site_idx < Len(sites))
    /\ UNCHANGED <<inputs, site_data, upload_vars, weather_probs, stats, columns, rng,
                   weather_conditions, temperature, wind_speed, spot_prices,
                   energy_production, downtime_hours, combined_data, result, error>>

\* line 372: pd.concat raises ValueError on an empty list
ConcatBlocks ==
    /\ pc = "concat"
    /\ log' = Append(log, Call("concat", ""))
    /\ IF all_data = <<>>
       THEN /\ pc' = "raised"
            /\ error' = "ValueError: No objects to concatenate"
            /\ combined_data' = combined_data
            /\ columns' = columns
       ELSE /\ pc' = StageAfter(pc, FALSE)
            /\ error' = error
            /\ combined_data' = Concat(all_data)
            /\ columns' = ConcatColumns(all_columns)
    /\ UNCHANGED <<inputs, site_data, upload_vars, weather_probs, stats, all_columns,
                   rng, site_idx, weather_conditions, temperature, wind_speed,
                   spot_prices, energy_production, downtime_hours, all_data, result>>

\* line 375
IntroduceMissing ==
    /\ pc = "missing"
    /\ LET r == np_random_seed(rng, 789)
       IN  /\ combined_data' = introduce_missing_values(combined_data, gen, r)
           /\ rng' = Advance(r, 3 * Len(combined_data))
    /\ log' = Append(log, Call("missing", ""))
    /\ pc' = StageAfter(pc, FALSE)
    /\ UNCHANGED <<inputs, site_data, upload_vars, weather_probs, stats, all_columns,
                   columns, site_idx, weather_conditions, temperature, wind_speed,
                   spot_prices, energy_production, downtime_hours, all_data, result,
                   error>>

\* line 376
IntroduceOutliers ==
    /\ pc = "outliers"
    /\ LET r == np_random_seed(rng, 101112)
       IN  /\ combined_data' = introduce_outliers(combined_data, gen, r)
           /\ rng' = Advance(r, OutlierDraws(combined_data, gen, r))
    /\ log' = Append(log, Call("outliers", ""))
    /\ pc' = StageAfter(pc, FALSE)
    /\ UNCHANGED <<inputs, site_data, upload_vars, weather_probs, stats, all_columns,
                   columns, site_idx, weather_conditions, temperature, wind_speed,
                   spot_prices, energy_production, downtime_hours, all_data, result,
                   error>>

\* line 379
RecomputeRevenue ==
    /\ pc = "recompute"
    /\ combined_data' = recompute_revenue(combined_data)
    /\ log' = Append(log, Call("recompute", ""))
    /\ pc' = StageAfter(pc, FALSE)
    /\ columns' = SetColumn(columns, "Revenue")
    /\ UNCHANGED <<inputs, site_data, upload_vars, weather_probs, stats, all_columns,
                   rng, site_idx, weather_conditions, temperature, wind_speed,
                   spot_prices, energy_production, downtime_hours, all_data, result,
                   error>>

\* lines 382-386: sort and return
SortAndReturn ==
    /\ pc = "sort"
    /\ combined_data' = sort_values(combined_data)
    /\ result' = sort_values(combined_data)
    /\ log' = Append(log, Call("sort", ""))
    /\ pc' = StageAfter(pc, FALSE)
    /\ UNCHANGED <<inputs, site_data, upload_vars, weather_probs, stats, all_columns,
                   columns, rng, site_idx, weather_conditions, temperature, wind_speed,
                   spot_prices, energy_production, downtime_hours, all_data, error>>

\* main(), lines 453-454: the summary of the returned table.  On a table
\* without a row df['Date'].min() is NaT, whose strftime raises ValueError
SummaryStats ==
    /\ pc = "done"
    /\ log' = Append(log, Call("summary", ""))
    /\ IF result = <<>>
       THEN /\ pc' = "raised"
            /\ error' = "ValueError: NaTType does not support strftime"
            /\ stats' = stats
       ELSE /\ pc' = "summarised"
            /\ error' = error
            /\ stats' = generate_summary_stats(result, columns)
    /\ UNCHANGED <<inputs, site_data, upload_vars, weather_probs, all_columns, columns,
                   rng, site_idx, weather_conditions, temperature, wind_speed,
                   spot_prices, energy_production, downtime_hours, all_data,
                   combined_data, result>>

Next ==
    \/ SharedWeather
    \/ SharedPrice
    \/ SiteProduction
    \/ SiteDowntime
    \/ SiteAssemble
    \/ ConcatBlocks
    \/ IntroduceMissing
    \/ IntroduceOutliers
    \/ RecomputeRevenue
    \/ SortAndReturn
    \/ SummaryStats

Spec == Init /\ [][Next]_vars

(***************************************************************************)
(* A second, independent run with the same date range and catalog          *)
(* (test_data_generation_reproducibility builds a second generator in the  *)
(* same process; the script's main() is one run per process)               *)
(***************************************************************************)
Restarted ==
    /\ pc' = "weather"
    /\ site_idx' = 1
    /\ weather_probs' = <<>>
    /\ weather_conditions' = <<>>
    /\ temperature' = <<>>
    /\ wind_speed' = <<>>
    /\ spot_prices' = <<>>
    /\ energy_production' = <<>>
    /\ downtime_hours' = <<>>
    /\ all_data' = <<>>
    /\ all_columns' = <<>>
    /\ combined_data' = <<>>
    /\ columns' = <<>>
    /\ result' = <<>>
    /\ stats' = NoStats
    /\ log' = <<>>
    /\ run' = run + 1
    /\ prev_result' = result

\* a second generator in the same interpreter: the hash salt and the global
\* generator are the process's
RunAgain ==
    /\ pc = "done"
    /\ run = 1
    /\ Restarted
    /\ UNCHANGED <<start_date, end_date, date_range, sites, hash_salt, gen, rng, error,
                   upload_vars, site_data>>

\* a second run of the script: a new interpreter draws a new hash salt
NewProcess ==
    /\ pc = "done"
    /\ run = 1
    /\ Restarted
    /\ hash_salt' \in 0..(NumSalts - 1)
    /\ rng' = Unseeded
    /\ UNCHANGED <<start_date, end_date, date_range, sites, gen, error, upload_vars,
                   site_data>>

NextRuns ==
    \/ Next
    \/ RunAgain
    \/ NewProcess

SpecRuns == Init /\ [][NextRuns]_vars

(***************************************************************************)
(* generate_site_data called on its own for one wind site and one day,     *)
(* with the four arrays given by the caller: any wind speed from 0 to      *)
(* MaxWindSpeed tenths of a m/s and any weather label                      *)
(***************************************************************************)
InitSiteCall ==
    /\ start_date \in StartDays
    /\ end_date = start_date
    /\ date_range = DateRange(start_date, end_date)
    /\ sites \in {c \in Catalogs : Len(c) = 1 /\ c[1][2].type = "wind"}
    /\ hash_salt \in 0..(NumSalts - 1)
    /\ gen \in 0..(NumCallGens - 1)
    /\ rng = Unseeded
    /\ pc = "production"
    /\ site_idx = 1
    /\ weather_probs = <<>>
    /\ weather_conditions \in {<<w>> : w \in Range(weather_labels)}
    /\ temperature = <<150>>
    /\ wind_speed \in {<<s>> : s \in 0..MaxWindSpeed}
    /\ spot_prices = <<450>>
    /\ energy_production = <<>>
    /\ downtime_hours = <<>>
    /\ all_data = <<>>
    /\ all_columns = <<>>
    /\ combined_data = <<>>
    /\ columns = <<>>
    /\ result = <<>>
    /\ stats = NoStats
    /\ error = NoError
    /\ log = <<>>
    /\ run = 1
    /\ prev_result = <<>>
    /\ NoUpload
    /\ site_data = NoSiteData

NextSiteCall ==
    \/ SiteProduction
    \/ SiteDowntime
    \/ SiteAssemble

SpecSiteCall == InitSiteCall /\ [][NextSiteCall]_vars

(***************************************************************************)
(* generate_site_data called on its own, with no weather and no price      *)
(* given, before or after generate_all_data on the same generator object   *)
(***************************************************************************)
InitAlone ==
    /\ Init
    /\ gen < NumCallGens

AloneCalls == Len(SelectSeq(log, LAMBDA c : c.op = "site_data"))

\* lines 306-352 with the four arrays None: the weather and the price are
\* generated again (lines 315-320), then the site's production, downtime
\* and block as in the loop of generate_all_data
SiteDataAlone ==
    /\ pc \in {"weather", "done", "summarised"}
    /\ AloneCalls < MaxAloneCalls
    /\ \E i \in DOMAIN sites :
         LET site_id == sites[i][1]
             site_info == sites[i][2]
             n == Len(date_range)
             r_weather == np_random_seed(rng, 123)
             w == generate_weather_data(date_range, gen, r_weather)
             r_price == np_random_seed(Advance(r_weather, 3 * n), 42)
             price == generate_spot_market_price(date_range, start_date, gen, r_price)
             r_production ==
                 np_random_seed(Advance(r_price, 3 * n), ProductionSeed(site_id, hash_salt))
             production ==
                 generate_energy_production(site_info, date_range, w.weather_conditions,
                                            w.temperature, w.wind_speed, gen, r_production)
             r_downtime ==
                 np_random_seed(Advance(r_production, n), DowntimeSeed(site_id, hash_salt))
             downtime == generate_downtime(date_range, site_info.type, gen, r_downtime)
         IN  /\ log' = Append(log, Call("site_data", site_id))
             /\ IF Dispatch(site_info.type) = "raise"
                THEN /\ site_data' = site_data
                     /\ rng' = r_production
                     /\ pc' = "raised"
                     /\ error' = "ValueError: Unknown site type"
                ELSE IF ~HasMaintenanceProb(site_info.type)
                THEN /\ site_data' = site_data
                     /\ rng' = r_downtime
                     /\ pc' = "raised"
                     /\ error' = "KeyError"
                ELSE /\ site_data' =
                           [site |-> site_id,
                            rows |-> SiteBlock(site_id, site_info, date_range, production,
                                               price, w.weather_conditions, downtime,
                                               w.temperature, w.wind_speed)]
                     /\ rng' = Advance(r_downtime, 3 * n)
                     /\ pc' = pc
                     /\ error' = error
    /\ UNCHANGED <<inputs, upload_vars, weather_probs, stats, all_columns, columns,
                   site_idx, weather_conditions, temperature, wind_speed, spot_prices,
                   energy_production, downtime_hours, all_data, combined_data, result>>

NextAlone ==
    \/ Next
    \/ SiteDataAlone

SpecAlone == InitAlone /\ [][NextAlone]_vars

(***************************************************************************)
(* upload_synthetic_data (src/data_generation/upload_to_datalake.py)       *)
(***************************************************************************)
\* the generator is not in use
NoGeneration ==
    /\ start_date = 7
    /\ end_date = 7
    /\ date_range = DateRange(7, 7)
    /\ sites = <<>>
    /\ hash_salt = 0
    /\ gen = 0
    /\ rng = Unseeded
    /\ pc = "idle"
    /\ site_idx = 1
    /\ weather_probs = <<>>
    /\ weather_conditions = <<>>
    /\ temperature = <<>>
    /\ wind_speed = <<>>
    /\ spot_prices = <<>>
    /\ energy_production = <<>>
    /\ downtime_hours = <<>>
    /\ all_data = <<>>
    /\ all_columns = <<>>
    /\ combined_data = <<>>
    /\ columns = <<>>
    /\ result = <<>>
    /\ stats = NoStats
    /\ error = NoError
    /\ log = <<>>
    /\ run = 1
    /\ prev_result = <<>>
    /\ site_data = NoSiteData

generation_vars ==
    <<start_date, end_date, date_range, sites, hash_salt, gen, rng, pc, site_idx,
      weather_probs, weather_conditions, temperature, wind_speed, spot_prices,
      energy_production, downtime_hours, all_data, all_columns, combined_data,
      columns, result, stats, error, log, run, prev_result, site_data>>

\* what a request to the storage service, or the uploader's constructor, does:
\* it returns, or raises AzureError or another subclass of Exception
Outcomes == {"ok", "AzureError", "Exception"}

\* upload_synthetic_data(csv_file_path, summary_file_path) is called: the
\* files its arguments name and the behaviour of the service are any
InitUpload ==
    /\ NoGeneration
    /\ upload_env \in
           [called : {TRUE},
            construct : {"ok", "Exception"},
            first_date : {"valid", "unreadable", "NaT"},
            first_day : {7},
            now : {306},
            csv_exists : BOOLEAN,
            summary_given : BOOLEAN,
            summary_exists : BOOLEAN,
            summary_is_json : BOOLEAN,
            csv_upload : Outcomes,
            csv_verified : BOOLEAN,
            metadata_upload : Outcomes,
            metadata_verified : BOOLEAN]
    /\ upload_pc = "construct"
    /\ results = [target_folder |-> <<>>, uploaded_files |-> <<>>, errors |-> <<>>]
    /\ upload_calls = <<>>
    /\ upload_raised = NoError

\* create_folder_structure(date): data_type/%Y/%m/%d
create_folder_structure(date) == <<"renewable_energy">> \o strftime(date)

\* mutant: the handler of upload_synthetic_data catches AzureError only
CaughtAzureOnly(exc) == exc = "AzureError"

\* except Exception (line 312): every exception the upload steps raise is a
\* subclass of Exception
Caught(exc) == exc \in {"AzureError", "Exception", "FileNotFoundError", "JSONDecodeError"}

\* upload_csv_data: FileNotFoundError for a missing file (line 109), else what
\* upload_blob does (its exceptions are logged and raised again)
upload_csv_data(env) == IF ~env.csv_exists THEN "FileNotFoundError" ELSE env.csv_upload

\* upload_metadata: what upload_blob does
upload_metadata(env) == env.metadata_upload

\* line 267: DataLakeUploader(); its exception is logged and raised again,
\* outside the try of upload_synthetic_data
UploadConstruct ==
    /\ upload_pc = "construct"
    /\ IF upload_env.construct = "ok"
       THEN /\ upload_pc' = "read_date"
            /\ upload_raised' = upload_raised
       ELSE /\ upload_pc' = "raised"
            /\ upload_raised' = upload_env.construct
    /\ UNCHANGED <<generation_vars, upload_env, results, upload_calls>>

\* lines 270-285: the date of the first row (the current date when the file
\* cannot be read), the target folder and the empty results dict; strftime
\* of a first row without a date (NaT) raises ValueError outside the try
UploadReadDate ==
    /\ upload_pc = "read_date"
    /\ IF upload_env.first_date = "NaT"
       THEN /\ upload_pc' = "raised"
            /\ upload_raised' = "ValueError: NaTType does not support strftime"
            /\ results' = results
       ELSE /\ upload_pc' = "csv"
            /\ upload_raised' = upload_raised
            /\ results' =
                   [target_folder |->
                        create_folder_structure(
                            IF upload_env.first_date = "valid" /\ upload_env.csv_exists
                            THEN upload_env.first_day ELSE upload_env.now),
                    uploaded_files |-> <<>>,
                    errors |-> <<>>]
    /\ UNCHANGED <<generation_vars, upload_env, upload_calls>>

\* the except clause of lines 312-315 for an exception raised inside the try
Handle(exc) ==
    IF Caught(exc)
    THEN /\ results' = [results EXCEPT !.errors = Append(@, <<"Upload failed", exc>>)]
         /\ upload_pc' = "return"
         /\ upload_raised' = upload_raised
    ELSE /\ results' = results
         /\ upload_pc' = "raised"
         /\ upload_raised' = exc

\* lines 287-295: the CSV upload, then its entry with the verification
UploadCsv ==
    /\ upload_pc = "csv"
    /\ IF upload_csv_data(upload_env) = "ok"
       THEN /\ upload_calls' = upload_calls \o <<"upload_csv_data", "verify_upload">>
            /\ results' = [results EXCEPT !.uploaded_files =
                              Append(@, [type |-> "data",
                                         verified |-> upload_env.csv_verified])]
            /\ upload_pc' = "summary"
            /\ upload_raised' = upload_raised
       ELSE /\ upload_calls' = Append(upload_calls, "upload_csv_data")
            /\ Handle(upload_csv_data(upload_env))
    /\ UNCHANGED <<generation_vars, upload_env>>

\* lines 298-308: the summary, when its path is given and exists: json.load,
\* the metadata upload, then its entry with the verification
UploadSummary ==
    /\ upload_pc = "summary"
    /\ IF ~(upload_env.summary_given /\ upload_env.summary_exists)
       THEN /\ upload_pc' = "return"
            /\ UNCHANGED <<results, upload_calls, upload_raised>>
       ELSE IF ~upload_env.summary_is_json
       THEN /\ upload_calls' = upload_calls
            /\ Handle("JSONDecodeError")
       ELSE IF upload_metadata(upload_env) = "ok"
       THEN /\ upload_calls' = upload_calls \o <<"upload_metadata", "verify_upload">>
            /\ results' = [results EXCEPT !.uploaded_files =
                              Append(@, [type |-> "metadata",
                                         verified |-> upload_env.metadata_verified])]
            /\ upload_pc' = "return"
            /\ upload_raised' = upload_raised
       ELSE /\ upload_calls' = Append(upload_calls, "upload_metadata")
            /\ Handle(upload_metadata(upload_env))
    /\ UNCHANGED <<generation_vars, upload_env>>

\* line 317: return results
UploadReturn ==
    /\ upload_pc = "return"
    /\ upload_pc' = "returned"
    /\ UNCHANGED <<generation_vars, upload_env, results, upload_calls, upload_raised>>

NextUpload ==
    \/ UploadConstruct
    \/ UploadReadDate
    \/ UploadCsv
    \/ UploadSummary
    \/ UploadReturn

SpecUpload == InitUpload /\ [][NextUpload]_vars

(***************************************************************************)
(* Properties                                                              *)
(***************************************************************************)
Returned == pc = "done"

\* the stages at which the combined table exists
Combined == pc \in {"missing", "outliers", "recompute", "sort", "done"}

SiteIds == {sites[k][1] : k \in DOMAIN sites}

Days == start_date..end_date

SameKey(a, b) == a.Date = b.Date /\ a.SiteID = b.SiteID

\* the rows of the site blocks, as built before degradation
Blocks == Concat(all_data)

\* C1: the returned table has exactly one row for every (date, site) pair of
\* the date range and the catalog and no other row, hence |D| x |C| rows; its
\* earliest date is the start date and its latest the end date; and from the
\* concatenation on no stage adds or deletes a row.
C1_OneRowPerDateAndSite ==
    /\ Combined =>
          /\ Len(combined_data) = Cardinality(Days) * Len(sites)
          /\ \A d \in Days : \A s \in SiteIds :
                 Cardinality({i \in DOMAIN combined_data :
                     combined_data[i].Date = d /\ combined_data[i].SiteID = s}) = 1
          /\ \A i \in DOMAIN combined_data :
                 combined_data[i].Date \in Days /\ combined_data[i].SiteID \in SiteIds
    /\ Returned =>
          /\ result = combined_data
          /\ result /= <<>> =>
                 /\ \E i \in DOMAIN result : result[i].Date = start_date
                 /\ \E i \in DOMAIN result : result[i].Date = end_date
                 /\ \A i \in DOMAIN result :
                        start_date <= result[i].Date /\ result[i].Date <= end_date

\* a returned table of several days and several sites in which degradation
\* nulled a cell
C1_Witness ==
    /\ Returned
    /\ Cardinality(Days) >= 2
    /\ Len(sites) >= 2
    /\ \E i \in DOMAIN result : IsNaN(result[i].EnergyProduced_kWh)

\* C2: in the returned table every row whose energy and price are present
\* has Revenue = EnergyProduced_kWh * SpotMarketPrice / 1000 within 0.01,
\* rows changed by outlier injection included.
C2_RevenueInvariant ==
    Returned =>
        \A i \in DOMAIN result :
            (~IsNaN(result[i].EnergyProduced_kWh) /\ ~IsNaN(result[i].SpotMarketPrice)) =>
                /\ ~IsNaN(result[i].Revenue)
                /\ Abs(100 * result[i].Revenue
                       - result[i].EnergyProduced_kWh * result[i].SpotMarketPrice) < 1000

\* a returned row whose energy outlier injection changed, so that the revenue
\* of its site block is no longer the product
C2_Witness ==
    /\ Returned
    /\ \E i \in DOMAIN result : \E j \in DOMAIN Blocks :
           /\ SameKey(result[i], Blocks[j])
           /\ ~IsNaN(result[i].EnergyProduced_kWh)
           /\ result[i].EnergyProduced_kWh /= Blocks[j].EnergyProduced_kWh
           /\ Abs(100 * Blocks[j].Revenue
                  - result[i].EnergyProduced_kWh * result[i].SpotMarketPrice) >= 1000

\* C3: two independent runs with the same date range and catalog return
\* identical tables (missing values equal to each other).
C3_Reproducible ==
    (Returned /\ run = 2) => result = prev_result

\* C4 as stated: for any fixed date every site's row shows identical
\* WeatherCondition, Temperature_C, WindSpeed_mps and SpotMarketPrice.
C4_SharedWeatherAndPrice ==
    Returned =>
        \A i, j \in DOMAIN result :
            result[i].Date = result[j].Date =>
                /\ result[i].WeatherCondition = result[j].WeatherCondition
                /\ result[i].SpotMarketPrice = result[j].SpotMarketPrice
                /\ result[i].Temperature_C = result[j].Temperature_C
                /\ result[i].WindSpeed_mps = result[j].WindSpeed_mps

\* C4 amended: for any fixed date every site's row shows identical
\* WeatherCondition and SpotMarketPrice, and identical Temperature_C and
\* WindSpeed_mps wherever the cell is present in both rows (missing-value
\* injection nulls these two columns row by row).
C4_SharedWherePresent ==
    Returned =>
        \A i, j \in DOMAIN result :
            result[i].Date = result[j].Date =>
                /\ result[i].WeatherCondition = result[j].WeatherCondition
                /\ result[i].SpotMarketPrice = result[j].SpotMarketPrice
                /\ \/ IsNaN(result[i].Temperature_C)
                   \/ IsNaN(result[j].Temperature_C)
                   \/ result[i].Temperature_C = result[j].Temperature_C
                /\ \/ IsNaN(result[i].WindSpeed_mps)
                   \/ IsNaN(result[j].WindSpeed_mps)
                   \/ result[i].WindSpeed_mps = result[j].WindSpeed_mps

\* two sites' rows of one date, the temperature missing in one and present
\* in the other
C4_Witness ==
    /\ Returned
    /\ \E i, j \in DOMAIN result :
           /\ result[i].Date = result[j].Date
           /\ result[i].SiteID /= result[j].SiteID
           /\ IsNaN(result[i].Temperature_C)
           /\ ~IsNaN(result[j].Temperature_C)
           /\ ~IsNaN(result[i].WindSpeed_mps)
           /\ ~IsNaN(result[j].WindSpeed_mps)

\* C5: an empty or inverted date range is a fatal configuration error:
\* generate_all_data on it fails instead of returning a table.
C5_InvertedRangeFails ==
    start_date > end_date => ~Returned

\* C6: a site of an unknown type makes generation fail with ValueError
\* 'Unknown site type', raised by the production dispatch before any row of
\* that site is built and before the downtime model is consulted for it; the
\* error is not caught or retried, and no table is returned.
C6_UnknownTypeFailsFast ==
    LET Unknown(k) == sites[k][2].type \notin {"solar", "wind", "battery"}
        Calls(op, k) == {n \in DOMAIN log : log[n] = Call(op, sites[k][1])}
    IN  /\ \A k \in DOMAIN sites : Unknown(k) =>
               /\ Calls("downtime", k) = {}
               /\ Calls("revenue", k) = {}
               /\ Cardinality(Calls("production", k)) <= 1
               /\ \A b \in DOMAIN all_data : \A i \in DOMAIN all_data[b] :
                      all_data[b][i].SiteID /= sites[k][1]
               /\ Calls("production", k) /= {} =>
                      /\ pc = "raised"
                      /\ error = "ValueError: Unknown site type"
                      /\ site_idx = k
        /\ (\E k \in DOMAIN sites : Unknown(k)) =>
               /\ ~Combined
               /\ result = <<>>
        /\ pc = "raised" => result = <<>>

\* the dispatch raised at the second site, after the first site's block was built
C6_Witness ==
    /\ pc = "raised"
    /\ error = "ValueError: Unknown site type"
    /\ site_idx = 2
    /\ Len(all_data) = 1
    /\ all_data[1] /= <<>>

\* C7: in every row of the returned table EnergyProduced_kWh and Revenue are
\* each missing or non-negative; so is every energy and revenue of the site
\* blocks and of the combined table at every stage.
C7_NonNegative ==
    LET Ok(x) == IsNaN(x) \/ x >= 0
        RowsOk(t) == \A i \in DOMAIN t : Ok(t[i].EnergyProduced_kWh) /\ Ok(t[i].Revenue)
    IN  /\ RowsOk(result)
        /\ RowsOk(combined_data)
        /\ RowsOk(Blocks)
        /\ \A i \in DOMAIN energy_production : energy_production[i] >= 0

\* a returned row with downtime whose energy outlier injection multiplied and
\* left present and positive
C7_Witness ==
    /\ Returned
    /\ \E i \in DOMAIN result : \E j \in DOMAIN Blocks :
           /\ SameKey(result[i], Blocks[j])
           /\ result[i].DowntimeHours > 0
           /\ ~IsNaN(result[i].EnergyProduced_kWh)
           /\ result[i].EnergyProduced_kWh > 0
           /\ result[i].Revenue > 0
           /\ result[i].EnergyProduced_kWh /= Blocks[j].EnergyProduced_kWh

\* the rows of the site blocks that missing-value injection nulls the energy of
Nulled(row) ==
    \E j \in DOMAIN Blocks :
        SameKey(row, Blocks[j]) /\ Random(gen, 789, j - 1) < 20

\* the rows of the site blocks that outlier injection selects
Selected(row) ==
    \E j \in DOMAIN Blocks :
        SameKey(row, Blocks[j]) /\ Random(gen, 101112, j - 1) < 10

\* C8: in the returned table Revenue is missing exactly in the rows where
\* EnergyProduced_kWh is missing, and the price is never missing; an energy
\* cell nulled by missing-value injection is missing at every later stage.
C8_RevenueMissingIffEnergyMissing ==
    /\ Returned =>
           \A i \in DOMAIN result :
               /\ IsNaN(result[i].Revenue) <=> IsNaN(result[i].EnergyProduced_kWh)
               /\ ~IsNaN(result[i].SpotMarketPrice)
    /\ pc \in {"outliers", "recompute", "sort", "done"} =>
           \A i \in DOMAIN combined_data :
               IsNaN(combined_data[i].EnergyProduced_kWh) <=> Nulled(combined_data[i])
    /\ pc \in {"sort", "done"} =>
           \A i \in DOMAIN combined_data :
               Nulled(combined_data[i]) => IsNaN(combined_data[i].Revenue)

\* a returned row whose energy was nulled and then selected by outlier
\* injection, next to a row with energy and revenue present
C8_Witness ==
    /\ Returned
    /\ \E i \in DOMAIN result :
           /\ Nulled(result[i])
           /\ Selected(result[i])
           /\ IsNaN(result[i].Revenue)
    /\ \E i \in DOMAIN result : ~IsNaN(result[i].Revenue)

\* C9: DowntimeHours is within [0, 24] in every row of the returned table
\* (and of every site block), so the availability 1 - downtime / 24 is
\* within [0, 1].
C9_DowntimeBounded ==
    LET RowsOk(t) ==
            \A i \in DOMAIN t :
                /\ 0 <= t[i].DowntimeHours /\ t[i].DowntimeHours <= 240
                /\ 0 <= Availability(t[i].DowntimeHours)
                /\ Availability(t[i].DowntimeHours) <= 1000
    IN  /\ RowsOk(result)
        /\ RowsOk(combined_data)
        /\ RowsOk(Blocks)
        /\ \A i \in DOMAIN downtime_hours :
               0 <= downtime_hours[i] /\ downtime_hours[i] <= 240

\* a returned table with a day of maintenance plus weather outage, a day of
\* weather outage only and a day without downtime
C9_Witness ==
    /\ Returned
    /\ \E i \in DOMAIN result : result[i].DowntimeHours > 120
    /\ \E i \in DOMAIN result :
           result[i].DowntimeHours > 0 /\ result[i].DowntimeHours <= 30

\* C10: SpotMarketPrice is strictly positive (at least the floor of 5) in
\* every row of the returned table, and every row carries the price the price
\* model produced for its day: no later stage changes or nulls the column.
C10_PricePositive ==
    /\ \A i \in DOMAIN spot_prices : spot_prices[i] >= 50
    /\ Returned =>
           \A i \in DOMAIN result :
               /\ ~IsNaN(result[i].SpotMarketPrice)
               /\ result[i].SpotMarketPrice > 0
               /\ result[i].SpotMarketPrice >= 50
               /\ \E d \in DOMAIN date_range :
                      /\ date_range[d] = result[i].Date
                      /\ result[i].SpotMarketPrice = spot_prices[d]

\* a returned table with a day whose price was clamped to the floor, in a
\* row that degradation changed
C10_Witness ==
    /\ Returned
    /\ \E i \in DOMAIN result :
           /\ result[i].SpotMarketPrice = 50
           /\ IsNaN(result[i].EnergyProduced_kWh) \/ IsNaN(result[i].Temperature_C)

\* C11: every row's WeatherCondition is one of the six labels Sunny, Partly
\* Cloudy, Cloudy, Rainy, Stormy, Foggy and never missing, in the site blocks,
\* at every stage of the combined table and in the returned table; one label
\* is sampled per day, and every row carries its day's label.
C11_WeatherLabelValid ==
    LET Labels == {"Sunny", "Partly Cloudy", "Cloudy", "Rainy", "Stormy", "Foggy"}
        RowsOk(t) ==
            \A i \in DOMAIN t :
                /\ t[i].WeatherCondition \in Labels
                /\ \E d \in DOMAIN date_range :
                       /\ date_range[d] = t[i].Date
                       /\ t[i].WeatherCondition = weather_conditions[d]
    IN  /\ pc /= "weather" =>
               /\ Len(weather_conditions) = Len(date_range)
               /\ \A d \in DOMAIN weather_conditions : weather_conditions[d] \in Labels
        /\ RowsOk(Blocks)
        /\ RowsOk(combined_data)
        /\ RowsOk(result)

\* a returned table of two days with different labels, one of them not the
\* likeliest, in which missing-value injection nulled a temperature
C11_Witness ==
    /\ Returned
    /\ \E i, j \in DOMAIN result :
           /\ result[i].WeatherCondition /= result[j].WeatherCondition
           /\ result[i].WeatherCondition \in {"Rainy", "Stormy", "Foggy"}
    /\ \E i \in DOMAIN result : IsNaN(result[i].Temperature_C)

\* C12: the table returned by generate_all_data has exactly the 11 columns
\* Date, SiteID, SiteName, SiteType, EnergyProduced_kWh, SpotMarketPrice,
\* Revenue, WeatherCondition, DowntimeHours, Temperature_C, WindSpeed_mps, in
\* this order and with no extras, for any inputs (an empty date range
\* included); every site's frame has them, and from the concatenation on no
\* stage adds, drops or reorders a column; every row has a cell for each.
C12_ElevenColumns ==
    LET Expected ==
            <<"Date", "SiteID", "SiteName", "SiteType", "EnergyProduced_kWh",
              "SpotMarketPrice", "Revenue", "WeatherCondition", "DowntimeHours",
              "Temperature_C", "WindSpeed_mps">>
        RowsOk(t) == \A i \in DOMAIN t : DOMAIN t[i] = Range(Expected)
    IN  /\ \A b \in DOMAIN all_columns : all_columns[b] = Expected
        /\ Len(all_columns) = Len(all_data)
        /\ Combined => columns = Expected
        /\ Returned => Len(columns) = 11
        /\ RowsOk(Blocks)
        /\ RowsOk(combined_data)
        /\ RowsOk(result)

\* a returned table of two sites whose rows degradation changed and whose
\* revenue column was assigned again
C12_Witness ==
    /\ Returned
    /\ Len(sites) = 2
    /\ columns /= <<>>
    /\ \E i \in DOMAIN result : IsNaN(result[i].WindSpeed_mps)
    /\ \E i \in DOMAIN result : \E j \in DOMAIN Blocks :
           SameKey(result[i], Blocks[j]) /\ result[i].Revenue /= Blocks[j].Revenue

\* C13: the rows returned by generate_all_data are sorted ascending by
\* (Date, SiteID): of any two consecutive rows the earlier has a smaller
\* date, or the same date and a strictly smaller site id in string order
\* (not catalog order); sorting permutes the rows and changes none.
C13_SortedByDateAndSite ==
    Returned =>
        /\ \A i \in 1..(Len(result) - 1) :
               \/ result[i].Date < result[i + 1].Date
               \/ /\ result[i].Date = result[i + 1].Date
                  /\ SiteRank(result[i].SiteID) < SiteRank(result[i + 1].SiteID)
        /\ Len(result) = Len(Blocks)
        /\ \A j \in DOMAIN Blocks : \E i \in DOMAIN result : SameKey(result[i], Blocks[j])

\* a returned table of two days and two sites, the catalog listing first the
\* site whose id is the greater string
C13_Witness ==
    /\ Returned
    /\ Len(result) = 4
    /\ SiteRank(sites[1][1]) > SiteRank(sites[2][1])
    /\ result[1].SiteID = sites[2][1]
    /\ result[1].Date = result[2].Date

\* the row of the site blocks with the key of a row of the combined table
BlockOf(row) == CHOOSE j \in DOMAIN Blocks : SameKey(row, Blocks[j])

\* C14: the degradation stage changes only cell values: of
\* EnergyProduced_kWh, Temperature_C and WindSpeed_mps (missing values) and of
\* EnergyProduced_kWh (outliers).  Each of the two steps leaves the number of
\* rows and, in every row, Date, SiteID, SiteName, SiteType, SpotMarketPrice,
\* WeatherCondition and DowntimeHours as they were, and none of these is ever
\* missing; missing-value injection leaves Revenue alone and outlier
\* injection leaves Revenue, Temperature_C and WindSpeed_mps alone.
C14_DegradationFrame ==
    LET Kept(a, b) ==
            /\ a.Date = b.Date
            /\ a.SiteID = b.SiteID
            /\ a.SiteName = b.SiteName
            /\ a.SiteType = b.SiteType
            /\ a.SpotMarketPrice = b.SpotMarketPrice
            /\ a.WeatherCondition = b.WeatherCondition
            /\ a.DowntimeHours = b.DowntimeHours
            /\ ~IsNaN(a.SpotMarketPrice)
            /\ ~IsNaN(a.DowntimeHours)
        before == Blocks
        afterMissing == introduce_missing_values(before, gen, Seeded(789))
    IN  /\ pc \in {"outliers", "recompute"} =>
               /\ Len(combined_data) = Len(before)
               /\ \A i \in DOMAIN combined_data : Kept(combined_data[i], before[i])
        /\ pc = "outliers" =>
               \A i \in DOMAIN combined_data :
                   /\ combined_data[i].Revenue = before[i].Revenue
                   /\ IsNaN(combined_data[i].EnergyProduced_kWh)
                        \/ combined_data[i].EnergyProduced_kWh = before[i].EnergyProduced_kWh
                   /\ IsNaN(combined_data[i].Temperature_C)
                        \/ combined_data[i].Temperature_C = before[i].Temperature_C
                   /\ IsNaN(combined_data[i].WindSpeed_mps)
                        \/ combined_data[i].WindSpeed_mps = before[i].WindSpeed_mps
        /\ pc = "recompute" =>
               \A i \in DOMAIN combined_data :
                   /\ combined_data[i].Revenue = afterMissing[i].Revenue
                   /\ combined_data[i].Temperature_C = afterMissing[i].Temperature_C
                   /\ combined_data[i].WindSpeed_mps = afterMissing[i].WindSpeed_mps
        /\ Returned =>
               \A i \in DOMAIN result : Kept(result[i], Blocks[BlockOf(result[i])])

\* after outlier injection: a row with its energy nulled, a row with its
\* energy multiplied, and a row with its temperature or wind speed nulled
C14_Witness ==
    /\ pc = "recompute"
    /\ \E i \in DOMAIN combined_data : IsNaN(combined_data[i].EnergyProduced_kWh)
    /\ \E i \in DOMAIN combined_data :
           /\ ~IsNaN(combined_data[i].EnergyProduced_kWh)
           /\ combined_data[i].EnergyProduced_kWh /= Blocks[i].EnergyProduced_kWh
    /\ \E i \in DOMAIN combined_data :
           IsNaN(combined_data[i].Temperature_C) \/ IsNaN(combined_data[i].WindSpeed_mps)

\* the summary of the returned table has been computed
Summarised == pc = "summarised"

\* C15: in the summary generate_summary_stats returns for a table,
\* total_records is the number of rows, sites.total_sites the number of
\* distinct SiteID values (the catalog size), and for every column
\* data_quality.missing_values is the number of missing cells of the column
\* and missing_percentage that count divided by the row count times 100; the
\* table is not modified.
C15_SummaryCounts ==
    LET Numeric == {"EnergyProduced_kWh", "SpotMarketPrice", "Revenue", "DowntimeHours",
                    "Temperature_C", "WindSpeed_mps"}
        MissingCells(c) ==
            IF c \in Numeric
            THEN Cardinality({i \in DOMAIN result : result[i][c] = NaN})
            ELSE 0
    IN  Summarised =>
            /\ stats.total_records = Len(result)
            /\ stats.total_records = Cardinality(Days) * Len(sites)
            /\ stats.sites.total_sites = Cardinality({result[i].SiteID : i \in DOMAIN result})
            /\ stats.sites.total_sites = Len(sites)
            /\ DOMAIN stats.data_quality.missing_values = Range(columns)
            /\ DOMAIN stats.data_quality.missing_percentage = Range(columns)
            /\ \A c \in Range(columns) :
                   /\ stats.data_quality.missing_values[c] = MissingCells(c)
                   /\ stats.data_quality.missing_percentage[c]
                          = (MissingCells(c) * 100 * 1000) \div Len(result)
            /\ result = combined_data
            /\ result = sort_values(recompute_revenue(result))

\* the summary of a table of two sites and two days with a missing energy
\* cell and a missing temperature cell
C15_Witness ==
    /\ Summarised
    /\ Len(result) = 4
    /\ stats.sites.total_sites = 2
    /\ stats.data_quality.missing_values["EnergyProduced_kWh"] >= 1
    /\ stats.data_quality.missing_values["Revenue"] >= 1
    /\ stats.data_quality.missing_values["Temperature_C"] >= 1
    /\ stats.data_quality.missing_percentage["Temperature_C"] >= 25000

\* C16: for each site type, sites.site_types of the summary gives the number
\* of sites of that type in the table, independent of how many days the date
\* range covers.
C16_SiteTypeCounts ==
    Summarised =>
        /\ DOMAIN stats.sites.site_types = {sites[k][2].type : k \in DOMAIN sites}
        /\ \A t \in DOMAIN stats.sites.site_types :
               stats.sites.site_types[t]
                   = Cardinality({k \in DOMAIN sites : sites[k][2].type = t})

RECURSIVE SiteCalls(_)
\* the calls generate_site_data makes for the sites of a catalog, in order
SiteCalls(catalog) ==
    IF catalog = <<>> THEN <<>>
    ELSE <<Call("production", Head(catalog)[1]), Call("downtime", Head(catalog)[1]),
           Call("revenue", Head(catalog)[1])>> \o SiteCalls(Tail(catalog))

IsPrefix(p, q) == Len(p) <= Len(q) /\ p = SubSeq(q, 1, Len(p))

\* C17: generate_all_data runs its stages in one fixed order: the shared
\* weather and price series once each, before any site's production; for each
\* site in catalog order production, then downtime, then revenue; then the
\* concatenation, missing-value injection, outlier injection, the revenue
\* recompute and the sort.  At every point the calls made so far are the
\* first of this order, a call that returns has made all of them, and no
\* stage is skipped, repeated or reordered.
C17_StageOrder ==
    LET Order ==
            <<Call("weather", ""), Call("price", "")>> \o SiteCalls(sites)
            \o <<Call("concat", ""), Call("missing", ""), Call("outliers", ""),
                 Call("recompute", ""), Call("sort", "")>>
    IN  /\ IsPrefix(log, Order \o <<Call("summary", "")>>)
        /\ Returned => log = Order
        /\ (pc \notin {"raised", "done", "summarised"}) => Len(log) < Len(Order)

\* a call that returned the table of two sites: thirteen stages
C17_Witness ==
    /\ Returned
    /\ Len(sites) = 2
    /\ Len(log) = 13
    /\ result /= <<>>

\* C18: in every row of the returned table EnergyProduced_kWh is missing, or
\* the site's pre-degradation energy for that day, or that energy multiplied
\* by exactly one of 0.1, 0.2, 2.0, 3.0 (so multiplied at most once); and
\* Temperature_C and WindSpeed_mps are missing or the day's value, never
\* multiplied.  A row outlier injection did not select keeps its energy.
C18_OutlierMultipliers ==
    LET Multipliers == {100, 200, 2000, 3000}
    IN  Returned =>
            \A i \in DOMAIN result :
                LET b == Blocks[BlockOf(result[i])]
                    d == CHOOSE k \in DOMAIN date_range : date_range[k] = result[i].Date
                IN  /\ \/ IsNaN(result[i].EnergyProduced_kWh)
                       \/ result[i].EnergyProduced_kWh = b.EnergyProduced_kWh
                       \/ \E m \in Multipliers :
                              result[i].EnergyProduced_kWh
                                  = (b.EnergyProduced_kWh * m) \div 1000
                    /\ ~Selected(result[i]) =>
                           \/ IsNaN(result[i].EnergyProduced_kWh)
                           \/ result[i].EnergyProduced_kWh = b.EnergyProduced_kWh
                    /\ \/ IsNaN(result[i].Temperature_C)
                       \/ result[i].Temperature_C = temperature[d]
                    /\ \/ IsNaN(result[i].WindSpeed_mps)
                       \/ result[i].WindSpeed_mps = wind_speed[d]

\* a returned table with a row whose energy was doubled, its temperature and
\* wind speed present, next to a row that kept its energy
C18_Witness ==
    /\ Returned
    /\ \E i \in DOMAIN result :
           LET b == Blocks[BlockOf(result[i])]
           IN  /\ b.EnergyProduced_kWh > 0
               /\ Selected(result[i])
               /\ result[i].EnergyProduced_kWh = 2 * b.EnergyProduced_kWh
               /\ ~IsNaN(result[i].Temperature_C)
               /\ ~IsNaN(result[i].WindSpeed_mps)
    /\ \E i \in DOMAIN result :
           /\ ~IsNaN(result[i].EnergyProduced_kWh)
           /\ result[i].EnergyProduced_kWh = Blocks[BlockOf(result[i])].EnergyProduced_kWh

\* C19: the wind capacity factor is 0 for a speed below the cut-in (3.5),
\* (speed / 12)^3 from the cut-in up to the rated speed (12), 1 from the rated
\* speed up to the cut-out (25) and 0 from the cut-out on; a wind site on a
\* day with a speed below the cut-in or at or above the cut-out has zero
\* energy before downtime (and so in its block) whatever the weather factor
\* and the noise draw, and a positive one from the rated speed to the cut-out.
C19_WindPowerCurve ==
    LET speed == wind_speed[1]
        Curve ==
            IF speed < 35 THEN 0
            ELSE IF speed < 120 THEN (speed * speed * speed * 1000) \div 1728000
            ELSE IF speed < 250 THEN 1000
            ELSE 0
    IN  /\ CapacityFactor(speed) = Curve
        /\ pc /= "production" =>
               /\ (speed < 35 \/ speed >= 250) => energy_production[1] = 0
               /\ (120 <= speed /\ speed < 250) =>
                      energy_production[1] >= (Capacity(sites[1][2]) * 240 * 595) \div 1000
               /\ (35 <= speed /\ speed < 250) => energy_production[1] > 0
        /\ (pc = "concat" /\ (speed < 35 \/ speed >= 250)) =>
               /\ all_data[1][1].EnergyProduced_kWh = 0
               /\ all_data[1][1].Revenue = 0

\* a stormy day (the greatest weather factor) with a wind speed just below the
\* cut-in: the site's block has zero energy
C19_Witness ==
    /\ pc = "concat"
    /\ wind_speed[1] = 34
    /\ weather_conditions[1] = "Stormy"
    /\ all_data[1][1].SiteType = "wind"
    /\ all_data[1][1].EnergyProduced_kWh = 0

\* the stages of generate_all_data after the concatenation, on a table
Degrade(df) ==
    sort_values(recompute_revenue(
        introduce_outliers(introduce_missing_values(df, gen, Seeded(789)),
                           gen, Seeded(101112))))

\* C20: downtime affects energy at a single point: each site's
\* pre-degradation energy for a day is the production model's output for that
\* day multiplied by the availability 1 - DowntimeHours / 24, so it never
\* exceeds the model's output and is 0 when downtime is 24; no later stage
\* reads DowntimeHours to change energy or revenue: a row degradation did not
\* touch returns with that energy, and the energy and revenue columns
\* returned are those of the same blocks with their downtime column zeroed.
C20_DowntimeSinglePoint ==
    LET last == all_data[Len(all_data)]
        Avail(h) == 1000 - ((h * 1000) \div 240)
        Built == /\ all_data /= <<>>
                 /\ pc \in {"production", "concat", "missing", "outliers", "recompute",
                            "sort", "done", "summarised"}
        zeroed == Degrade([j \in DOMAIN Blocks |-> [Blocks[j] EXCEPT !.DowntimeHours = 0]])
    IN  /\ Avail(240) = 0 /\ Availability(240) = 0
        /\ Built =>
               \A i \in DOMAIN last :
                   /\ last[i].DowntimeHours = downtime_hours[i]
                   /\ last[i].EnergyProduced_kWh
                          = (energy_production[i] * Avail(downtime_hours[i])) \div 1000
                   /\ last[i].EnergyProduced_kWh <= energy_production[i]
                   /\ last[i].EnergyProduced_kWh >= 0
        /\ Returned =>
               /\ \A i \in DOMAIN result :
                      /\ result[i].EnergyProduced_kWh = zeroed[i].EnergyProduced_kWh
                      /\ result[i].Revenue = zeroed[i].Revenue
               /\ \A i \in DOMAIN result : \A d \in DOMAIN date_range :
                      (/\ result[i].SiteID = sites[Len(sites)][1]
                       /\ result[i].Date = date_range[d]
                       /\ ~Nulled(result[i])
                       /\ ~Selected(result[i])) =>
                          result[i].EnergyProduced_kWh
                              = (energy_production[d] * Avail(result[i].DowntimeHours)) \div 1000

\* a returned row of a maintenance day that degradation did not touch: its
\* energy is positive and below the production model's output
C20_Witness ==
    /\ Returned
    /\ \E i \in DOMAIN result : \E d \in DOMAIN date_range :
           /\ result[i].SiteID = sites[Len(sites)][1]
           /\ result[i].Date = date_range[d]
           /\ result[i].DowntimeHours > 20
           /\ ~Nulled(result[i])
           /\ ~Selected(result[i])
           /\ result[i].EnergyProduced_kWh > 0
           /\ result[i].EnergyProduced_kWh < energy_production[d]

\* C21: for every day each of the six unnormalised weather-condition weights
\* is strictly positive whatever the temperature and wind speed (on either
\* side of each threshold the weights compare them with), so their sum is
\* never zero, and after normalisation the six probabilities sum to 1 before
\* a label is sampled; there is one set of probabilities per day.
C21_WeightsPositive ==
    LET Positive(weights) ==
            /\ Len(weights) = 6
            /\ \A j \in 1..6 : weights[j] > 0
            /\ weights[1] + weights[2] + weights[3] + weights[4] + weights[5] + weights[6] > 0
    IN  /\ pc = "weather" =>
               \A t \in {0 - 400, 49, 50, 99, 100, 101, 200, 201, 400} :
                   \A w \in {0, 150, 151, 300} : Positive(WeatherWeights(t, w))
        /\ pc /= "weather" => Len(weather_probs) = Len(date_range)
        /\ \A d \in DOMAIN weather_probs :
               LET p == weather_probs[d]
               IN  /\ Positive(p.num)
                   /\ p.den > 0
                   \* the probabilities p.num[j] / p.den sum to 1
                   /\ p.num[1] + p.num[2] + p.num[3] + p.num[4] + p.num[5] + p.num[6] = p.den

\* the weather of two days was sampled: a windy day whose weights sum to more
\* than 1 before normalisation, and a cold day
C21_Witness ==
    /\ pc = "price"
    /\ Len(weather_probs) = 2
    /\ \E d \in DOMAIN weather_probs :
           wind_speed[d] > 150 /\ weather_probs[d].den > 1000
    /\ \E d \in DOMAIN weather_probs : temperature[d] < 50

\* C22: in upload_synthetic_data, once the uploader is constructed, an
\* exception raised by an upload step (CSV upload, metadata upload) never
\* propagates to the caller: it is recorded as a message in results['errors'],
\* no later upload step is attempted after it (a failed CSV upload means the
\* metadata upload is never started), and the results dict is still
\* returned; the metadata upload is attempted only after the CSV upload
\* returned successfully and only when a summary path was given and exists.
C22_UploadErrorsRecorded ==
    LET Called(step) == \E n \in DOMAIN upload_calls : upload_calls[n] = step
        CsvFailed == Called("upload_csv_data") /\ upload_csv_data(upload_env) /= "ok"
        MetadataFailed == Called("upload_metadata") /\ upload_env.metadata_upload /= "ok"
        Types == [n \in DOMAIN results.uploaded_files |-> results.uploaded_files[n].type]
    IN  upload_env.called =>
            /\ IsPrefix(upload_calls,
                        <<"upload_csv_data", "verify_upload", "upload_metadata", "verify_upload">>)
            /\ upload_calls /= <<>> =>
                   /\ upload_raised = NoError
                   /\ upload_pc \in {"summary", "return", "returned"}
                   /\ upload_env.construct = "ok"
            /\ CsvFailed =>
                   /\ upload_calls = <<"upload_csv_data">>
                   /\ results.errors = <<<<"Upload failed", upload_csv_data(upload_env)>>>>
                   /\ results.uploaded_files = <<>>
            /\ Called("upload_metadata") =>
                   /\ upload_env.csv_exists /\ upload_env.csv_upload = "ok"
                   /\ upload_env.summary_given /\ upload_env.summary_exists
                   /\ results.uploaded_files /= <<>>
                   /\ results.uploaded_files[1].type = "data"
            /\ MetadataFailed =>
                   /\ upload_calls = <<"upload_csv_data", "verify_upload", "upload_metadata">>
                   /\ results.errors = <<<<"Upload failed", upload_env.metadata_upload>>>>
                   /\ Types = <<"data">>
            /\ (upload_pc = "returned" /\ ~CsvFailed /\ ~MetadataFailed
                    /\ results.errors = <<>>) =>
                   Types \in {<<"data">>, <<"data", "metadata">>}
            /\ Len(results.errors) <= 1

\* the CSV upload raised AzureError although a summary file was there to
\* upload: the results are returned with the error and nothing uploaded
C22_Witness ==
    /\ upload_pc = "returned"
    /\ upload_env.csv_exists
    /\ upload_env.csv_upload = "AzureError"
    /\ upload_env.summary_given /\ upload_env.summary_exists
    /\ results.errors /= <<>>
    /\ upload_calls = <<"upload_csv_data">>

\* C23: for every site, generate_site_data called on its own (no weather or
\* price supplied) returns exactly the rows that generate_all_data builds
\* for that site before degradation, whatever stages or other sites were
\* generated earlier on the same generator: each stage reseeds the
\* process-global random generator before drawing.
C23_StandaloneEqualsBlock ==
    site_data /= NoSiteData =>
        \A j \in DOMAIN all_data :
            sites[j][1] = site_data.site => all_data[j] = site_data.rows

\* generate_site_data was called for the second site after generate_all_data
\* returned a degraded two-day table, and again before that for the first
C23_Witness ==
    /\ pc = "done"
    /\ Len(date_range) = 2
    /\ Len(sites) = 2
    /\ Len(log) > 2
    /\ log[1] = Call("site_data", sites[1][1])
    /\ log[Len(log)] = Call("site_data", sites[2][1])
    /\ site_data.site = sites[2][1]
    /\ Len(site_data.rows) = 2
    /\ all_data[2] = site_data.rows
    /\ result /= Concat(all_data)

\* C24: DowntimeHours depends only on the date and the site type, not on the
\* site identity: the downtime stage reseeds with the same constant for
\* every site, so for any date any two sites of the same type have identical
\* DowntimeHours, and across types the per-day downtime is ordered
\* battery <= solar <= wind.
C24_DowntimeByDateAndType ==
    LET rank(t) == CASE t = "battery" -> 1 [] t = "solar" -> 2 [] t = "wind" -> 3
        \* the blocks once the loop over the sites has ended, the table once
        \* it is returned: neither changes afterwards
        rows == IF pc = "concat" THEN Concat(all_data)
                ELSE IF pc = "done" THEN result
                ELSE <<>>
        dt(t) == generate_downtime(date_range, t, gen, Seeded(456))
    IN  /\ \A a \in DOMAIN rows : \A b \in DOMAIN rows :
               (rows[a].Date = rows[b].Date /\ rank(rows[a].SiteType) <= rank(rows[b].SiteType))
                   => rows[a].DowntimeHours <= rows[b].DowntimeHours
        /\ pc = "assemble" =>
               /\ downtime_hours = dt(sites[site_idx][2].type)
               /\ \A i \in DOMAIN date_range :
                      dt("battery")[i] <= dt("solar")[i] /\ dt("solar")[i] <= dt("wind")[i]

\* two wind sites are both in maintenance on a date where a battery is not
C24_Witness ==
    /\ pc = "done"
    /\ \E a \in DOMAIN result : \E b \in DOMAIN result :
           /\ result[a].Date = result[b].Date
           /\ result[a].SiteID /= result[b].SiteID
           /\ result[a].SiteType = "wind"
           /\ result[b].SiteType = "wind"
           /\ result[a].DowntimeHours = result[b].DowntimeHours
           /\ result[a].DowntimeHours >= 20
           /\ LET i == result[a].Date - start_date + 1
              IN  generate_downtime(date_range, "battery", gen, Seeded(456))[i]
                      < result[a].DowntimeHours

\* the days 2022-01-01 to 2024-12-31 of the default date range
AllDays == 1..(365 + 365 + 366)

\* the wind speed of every day at every draw is at least 5 m/s, so not below
\* the cut-in of the power curve (3.5 m/s)
WindSpeedFloor ==
    \A d \in AllDays : \A i \in DOMAIN Grid :
        /\ WindSpeed(d, Grid[i]) >= 50
        /\ ~(WindSpeed(d, Grid[i]) < 35)

\* C25: every wind speed produced by the weather model is at least 5 m/s
\* (base 8, seasonal term no lower than -3, non-negative gamma draw), so in
\* any table built by generate_all_data the wind power curve's below-cut-in
\* branch (speed < 3.5) is never taken and the floor of wind speed at 0 never
\* applies; every non-missing WindSpeed_mps in the output is >= 5.
C25_WindSpeedAtLeastFive ==
    LET n == Len(date_range)
        unfloored(i) ==
            80 + ((3 * SinYear(dayofyear(date_range[i]) - 120)) \div 100)
               + Gamma22(Random(gen, 123, n + i - 1))
    IN  /\ WindSpeedFloor
        /\ \A i \in DOMAIN wind_speed :
               /\ wind_speed[i] >= 50
               /\ wind_speed[i] = unfloored(i)
               /\ ~(wind_speed[i] < 35)
               /\ wind_speed[i] < 250 => CapacityFactor(wind_speed[i]) > 0
        /\ \A i \in DOMAIN combined_data :
               IsNaN(combined_data[i].WindSpeed_mps) \/ combined_data[i].WindSpeed_mps >= 50
        /\ \A i \in DOMAIN result :
               IsNaN(result[i].WindSpeed_mps) \/ result[i].WindSpeed_mps >= 50

\* a wind site on a winter day with the least gamma draw: the speed is within
\* 1 m/s of the bound and the site still produces
C25_Witness ==
    /\ pc = "done"
    /\ \E i \in DOMAIN result :
           /\ result[i].SiteType = "wind"
           /\ ~IsNaN(result[i].WindSpeed_mps)
           /\ result[i].WindSpeed_mps < 60
           /\ result[i].EnergyProduced_kWh > 0

====
